---- MODULE Spec2Model ----
(***************************************************************************)
(* A model of src/src/jvm.rs: the runtime handle `Jvm` (creation, drop,    *)
(* class lookup, the invocation family), the exception bridge and the      *)
(* jvalue marshaling functions.                                            *)
(*                                                                         *)
(* The foreign runtime (JNI) is the environment of this code.  Its         *)
(* functions are modelled by what the source relies on and by their JNI    *)
(* contract; wherever the contract leaves the outcome open the model takes *)
(* every outcome.  Strings are sequences of bytes.                         *)
(***************************************************************************)
EXTENDS Integers, Sequences, FiniteSets, TLC

\* ------------------------------------------------------------------ bounds

\* Native threads that call into the handle.
NumThreads == 2
\* Jvm::new attempts in one process.
MaxNewCalls == 3
\* Option strings passed to one Jvm::new call.
MaxOptions == 1
\* Marshaling calls in one run.
MaxMarshalCalls == 2

Threads == 1 .. NumThreads

\* ------------------------------------------------- jni_sys constants (1-5)

JNI_OK == 0
JNI_ERR == -1
JNI_EDETACHED == -2
JNI_EVERSION == -3
JNI_ENOMEM == -4
JNI_EEXIST == -5
JNI_EINVAL == -6
JNI_FALSE == 0
JNI_TRUE == 1
JNI_VERSION_1_8 == 65544

\* Every status the creation primitive can hand back: the seven named codes
\* and two values outside them (-7 and 1).
StatusCodes == (JNI_EINVAL - 1) .. (JNI_OK + 1)

\* ----------------------------------------------------------------- strings

\* "-Xc" (an option the foreign runtime knows), "-Xz" (one it does not) and
\* "-<NUL>" (interior NUL byte), as bytes.
OptionStrings == { <<45, 88, 99>>, <<45, 88, 122>>, <<45, 0>> }

\* The options the foreign runtime knows.
RecognizedOptions == { <<45, 88, 99>> }

\* "J" (a class that exists), "Q" (no such class), "J/" (malformed) and
\* "J<NUL>Q" (interior NUL byte).
ClassNames == { <<74>>, <<81>>, <<74, 47>>, <<74, 0, 81>> }

\* The classes the foreign runtime can load.
KnownClasses == { <<74>> }

\* std::ffi::CString::new: fails on an interior NUL byte, else appends the
\* terminator.
CStringNew(s) ==
    IF \E i \in 1 .. Len(s) : s[i] = 0
    THEN [ok |-> FALSE, bytes |-> <<>>]
    ELSE [ok |-> TRUE, bytes |-> Append(s, 0)]

\* The bytes of a C string up to its terminator, as the foreign side reads it.
CStr(bytes) == SubSeq(bytes, 1, Len(bytes) - 1)

VARIABLES
    vm_created,      \* foreign runtime: a VM was created in this process
    liveHandles,     \* Jvm values that exist
    handlesReturned, \* Jvm::new calls that returned a Jvm
    newCalls,        \* Jvm::new calls made
    lastNew,         \* what the last Jvm::new call did
    panicLog,        \* <<status, message>> of every Jvm::new panic on a status
    th,              \* th[t]: the call thread t is in
    mIn,             \* marshaling: the kind and host value of the last call
    mOut,            \* marshaling: the jvalue the last call produced
    mPrev,           \* marshaling: input and jvalue of the call before
    mCalls           \* marshaling: calls made

vars ==
    <<vm_created, liveHandles, handlesReturned, newCalls, lastNew, panicLog, th,
      mIn, mOut, mPrev, mCalls>>

newVars == <<vm_created, liveHandles, handlesReturned, newCalls, lastNew, panicLog>>
marshalVars == <<mIn, mOut, mPrev, mCalls>>

\* ---------------------------------------------------------------- Jvm::new

\* The option lists a caller passes.
OptionLists == UNION { [1 .. n -> OptionStrings] : n \in 0 .. MaxOptions }

\* jvm.rs 132-137: every option string through CString::new(..).unwrap().
OptionCStrings(jvm_option_strings) ==
    [i \in 1 .. Len(jvm_option_strings) |-> CStringNew(jvm_option_strings[i])]

\* Mutant of JavaVMInitArgs: the flag set to JNI_TRUE.
JavaVMInitArgsPermissive(jvm_options) ==
    [version |-> JNI_VERSION_1_8,
     options |-> jvm_options,
     nOptions |-> Len(jvm_options),
     ignoreUnrecognized |-> JNI_TRUE]

\* jvm.rs 152-158: the JavaVMInitArgs built from the option C strings.
JavaVMInitArgs(jvm_options) ==
    [version |-> JNI_VERSION_1_8,
     options |-> jvm_options,
     nOptions |-> Len(jvm_options),
     ignoreUnrecognized |-> JNI_FALSE]

\* The foreign runtime: an option it does not know is in the descriptor.
HasUnrecognizedOption(args) ==
    \E i \in 1 .. args.nOptions : CStr(args.options[i]) \notin RecognizedOptions

\* The foreign runtime skips an unknown option only when the descriptor says
\* ignoreUnrecognized and the option starts with "-X" or "_".
OptionsAccepted(args) ==
    \A i \in 1 .. args.nOptions :
        LET o == CStr(args.options[i]) IN
        \/ o \in RecognizedOptions
        \/ /\ args.ignoreUnrecognized = JNI_TRUE
           /\ \/ Len(o) >= 2 /\ o[1] = 45 /\ o[2] = 88
              \/ Len(o) >= 1 /\ o[1] = 95

\* The statuses JNI_CreateJavaVM can return.  Once a VM was created in the
\* process no further creation succeeds (jvm.rs 115-116); a descriptor with an
\* option that is not accepted is refused; otherwise creation succeeds or
\* fails with any status.
JNI_CreateJavaVM(created, args) ==
    IF created \/ ~OptionsAccepted(args)
    THEN StatusCodes \ {JNI_OK}
    ELSE StatusCodes

\* Mutant of ErrorMessage: the JNI_EVERSION arm carries the JNI_ERR text.
ErrorMessageMerged(result) ==
    CASE result = JNI_EDETACHED -> "thread detached from JVM"
      [] result = JNI_EEXIST -> "JVM exists already"
      [] result = JNI_EINVAL -> "invalid arguments"
      [] result = JNI_ENOMEM -> "not enough memory"
      [] result = JNI_ERR -> "unknown error"
      [] result = JNI_EVERSION -> "unknown error"
      [] OTHER -> "unknown JNI error value"

\* jvm.rs 175-183: the error code translated to a message.
ErrorMessage(result) ==
    CASE result = JNI_EDETACHED -> "thread detached from JVM"
      [] result = JNI_EEXIST -> "JVM exists already"
      [] result = JNI_EINVAL -> "invalid arguments"
      [] result = JNI_ENOMEM -> "not enough memory"
      [] result = JNI_ERR -> "unknown error"
      [] result = JNI_EVERSION -> "JNI version error"
      [] OTHER -> "unknown JNI error value"

\* jvm.rs 172-188: panic on every status but JNI_OK, else the handle.
NewReturnsHandle(result) == result = JNI_OK

\* Mutant of DropJvmVmCreated: drop tears the VM down, and the foreign
\* runtime no longer holds that a VM exists.
DropJvmDestroysVm(created) == FALSE

\* jvm.rs 378-386: Drop for Jvm makes no foreign call, so the foreign
\* runtime's record that a VM was created is what it was.
DropJvmVmCreated(created) == created

NoArgs == [version |-> 0, options |-> <<>>, nOptions |-> 0, ignoreUnrecognized |-> JNI_FALSE]

NoMessage == <<"", "">>

\* jvm.rs 130-189.
New(jvm_option_strings) ==
    /\ newCalls < MaxNewCalls
    /\ newCalls' = newCalls + 1
    /\ LET cstrings == OptionCStrings(jvm_option_strings)
           before == [handlesBefore |-> handlesReturned, liveBefore |-> liveHandles]
       IN
       IF \E i \in 1 .. Len(cstrings) : ~cstrings[i].ok
       THEN \* unwrap() of the NulError panics before the foreign call
            /\ lastNew' = [called |-> TRUE, foreignCalled |-> FALSE, args |-> NoArgs,
                           status |-> JNI_ERR, returned |-> FALSE,
                           message |-> <<"called Result::unwrap() on an Err value", "NulError">>,
                           handlesBefore |-> before.handlesBefore,
                           liveBefore |-> before.liveBefore]
            /\ UNCHANGED <<vm_created, liveHandles, handlesReturned, panicLog>>
       ELSE LET args == JavaVMInitArgs([i \in 1 .. Len(cstrings) |-> cstrings[i].bytes]) IN
            \E result \in JNI_CreateJavaVM(vm_created, args) :
                LET ok == NewReturnsHandle(result)
                    message == IF ok THEN NoMessage
                               ELSE <<"JNI_CreateJavaVM() signaled an error: ", ErrorMessage(result)>>
                IN
                /\ vm_created' = (vm_created \/ result = JNI_OK)
                /\ lastNew' = [called |-> TRUE, foreignCalled |-> TRUE, args |-> args,
                               status |-> result, returned |-> ok, message |-> message,
                               handlesBefore |-> before.handlesBefore,
                               liveBefore |-> before.liveBefore]
                /\ liveHandles' = IF ok THEN liveHandles + 1 ELSE liveHandles
                /\ handlesReturned' = IF ok THEN handlesReturned + 1 ELSE handlesReturned
                /\ panicLog' = IF ok THEN panicLog ELSE panicLog \cup {<<result, message>>}
    /\ UNCHANGED <<th, marshalVars>>

\* jvm.rs 378-386: a Jvm value goes out of scope.
DropJvm ==
    /\ liveHandles > 0
    /\ liveHandles' = liveHandles - 1
    /\ vm_created' = DropJvmVmCreated(vm_created)
    /\ UNCHANGED <<handlesReturned, newCalls, lastNew, panicLog, th, marshalVars>>

\* ------------------------------------------------------- thread attachment

\* JvmAttachment::new(jvm) on thread t: the thread is attached and the
\* attachment holds the thread's own environment pointer.
JvmAttachmentNew(t) == [live |-> TRUE, env |-> t]

\* Drop for JvmAttachment: the thread is detached.
JvmAttachmentDrop(att) == [att EXCEPT !.live = FALSE]

NoAttachment == [live |-> FALSE, env |-> 0]

\* ------------------------------------------------------ handle wrappers

\* JvmClass::from_jvm_ptr: None for a null pointer, else Some.
JvmClassFromJvmPtr(ptr) == IF ptr = 0 THEN "absent" ELSE "present"

\* JvmObject::from_jvm_ptr: None for a null pointer, else Some.
JvmObjectFromJvmPtr(ptr) == IF ptr = 0 THEN "absent" ELSE "present"

\* ------------------------------------------------------- exception bridge

\* The foreign ExceptionOccurred: a non-null reference iff an exception is
\* pending on the thread.
ExceptionOccurred(pending) == IF pending THEN 1 ELSE 0

\* The foreign ExceptionDescribe: prints the pending exception and, as JNI
\* documents, clears it as a side effect.  The value is the pending state
\* it leaves.
ExceptionDescribe(pending) == FALSE

\* jvm.rs 68-70.
jvm_exception_occured(pending) == ExceptionOccurred(pending) # 0

\* Mutant of print_and_panic_on_jvm_exception: the panic is left out.
PrintWithoutPanic(pending) ==
    IF jvm_exception_occured(pending)
    THEN [calls |-> <<"ExceptionOccurred", "ExceptionDescribe">>,
          pending |-> ExceptionDescribe(pending),
          panic |-> FALSE]
    ELSE [calls |-> <<"ExceptionOccurred">>, pending |-> pending, panic |-> FALSE]

\* Mutant of print_and_panic_on_jvm_exception: the panic comes without the
\* describe call.
PanicWithoutDescribe(pending) ==
    IF jvm_exception_occured(pending)
    THEN [calls |-> <<"ExceptionOccurred">>, pending |-> pending, panic |-> TRUE]
    ELSE [calls |-> <<"ExceptionOccurred">>, pending |-> pending, panic |-> FALSE]

\* jvm.rs 73-84: what the call does given the thread's pending state: the
\* foreign functions it calls in order, the pending state it leaves, and
\* whether it panics.
print_and_panic_on_jvm_exception(pending) ==
    IF jvm_exception_occured(pending)
    THEN [calls |-> <<"ExceptionOccurred", "ExceptionDescribe">>,
          pending |-> ExceptionDescribe(pending),
          panic |-> TRUE]
    ELSE [calls |-> <<"ExceptionOccurred">>, pending |-> pending, panic |-> FALSE]

\* Mutant of print_jvm_exception: it raises like the panicking check.
PrintJvmExceptionPanics(pending) ==
    IF jvm_exception_occured(pending)
    THEN [calls |-> <<"ExceptionOccurred", "ExceptionDescribe">>,
          pending |-> ExceptionDescribe(pending),
          panic |-> TRUE]
    ELSE [calls |-> <<"ExceptionOccurred">>, pending |-> pending, panic |-> FALSE]

\* jvm.rs 87-95.
print_jvm_exception(pending) ==
    IF jvm_exception_occured(pending)
    THEN [calls |-> <<"ExceptionOccurred", "ExceptionDescribe">>,
          pending |-> ExceptionDescribe(pending),
          panic |-> FALSE]
    ELSE [calls |-> <<"ExceptionOccurred">>, pending |-> pending, panic |-> FALSE]

\* --------------------------------------------------------- Jvm operations

InvocationOps ==
    {"call_constructor", "call_static_boolean_method", "call_static_int_method",
     "call_static_object_method", "call_static_void_method"}

\* The foreign function each invocation operation calls (jvm.rs 200, 266,
\* 295, 317, 338).
ForeignFunction(op) ==
    CASE op = "call_constructor" -> "NewObjectA"
      [] op = "call_static_boolean_method" -> "CallStaticBooleanMethodA"
      [] op = "call_static_int_method" -> "CallStaticIntMethodA"
      [] op = "call_static_object_method" -> "CallStaticObjectMethodA"
      [] op = "call_static_void_method" -> "CallStaticVoidMethodA"
      [] OTHER -> "FindClass"

\* The foreign FindClass: <<class pointer, exception thrown>>.  A null
\* pointer for every name that is no loadable class; a loadable class is
\* found, or its loading fails with an exception.
FindClass(name) ==
    IF name \in KnownClasses
    THEN { <<1, FALSE>>, <<0, TRUE>> }
    ELSE { <<0, TRUE>>, <<0, FALSE>> }

\* A foreign invocation: <<result, exception thrown>>.  The callee returns
\* or throws; what the result holds when it threw is not specified.  A void
\* call has no result.
ForeignInvoke(op) ==
    IF op = "call_static_void_method"
    THEN { <<0, FALSE>>, <<0, TRUE>> }
    ELSE { <<r, x>> : r \in {0, 1}, x \in BOOLEAN }

\* Mutant of EnvForCall: the environment pointer JNI_CreateJavaVM handed to
\* the creating thread (thread 1) is kept and used for every call.
EnvOfCreatingThread(att) == 1

\* The environment pointer every foreign call of an operation is given:
\* jvm_attachment.jni_environment() of the attachment the call made
\* (jvm.rs 201, 207, 267, 273, 296, 302, 318, 324, 339, 345, 359, 364).
EnvForCall(att) == att.env

\* The exception check each operation runs after its foreign call:
\* print_jvm_exception in get_class (jvm.rs 364), the panicking one in the
\* invocation operations (jvm.rs 207, 273, 302, 324, 345).
ExceptionBridge(op, pending) ==
    IF op = "get_class"
    THEN print_jvm_exception(pending)
    ELSE print_and_panic_on_jvm_exception(pending)

\* Mutant of DropsAttachment: the attachment is released on return only.
DropsAttachmentOnReturnOnly(exit) == exit = "return"

\* The local jvm_attachment is dropped when the function is left, by return
\* and by unwinding alike (jvm.rs 198, 264, 293, 315, 336, 353).
DropsAttachment(exit) == exit \in {"return", "panic"}

\* What an operation that was not left by a panic hands back (jvm.rs 209,
\* 275, 304, 326, 347, 366).
ReturnOutcome(op, ptr) ==
    CASE op = "get_class" -> JvmClassFromJvmPtr(ptr)
      [] op = "call_static_object_method" -> JvmObjectFromJvmPtr(ptr)
      [] op = "call_static_void_method" -> "unit"
      [] OTHER -> "value"

Idle ==
    [pc |-> "idle", op |-> "none", name |-> <<>>, att |-> NoAttachment,
     ptr |-> 0, thrown |-> FALSE, pendingAfterCall |-> FALSE, pending |-> FALSE,
     panic |-> FALSE,
     events |-> <<>>, outcome |-> "none", wrapped |-> FALSE]

\* The function is left: locals are dropped, the outcome is the caller's.
Leave(r, exit, outcome) ==
    LET dropped == DropsAttachment(exit) IN
    [r EXCEPT !.pc = "done",
              !.outcome = outcome,
              !.wrapped = (outcome = "present"),
              !.att = IF dropped THEN JvmAttachmentDrop(r.att) ELSE r.att,
              !.events = IF dropped
                         THEN r.events \o <<<<exit, 0>>, <<"detach", r.att.env>>>>
                         ELSE Append(r.events, <<exit, 0>>)]

\* An operation is entered on thread t: the first statement of each is
\* JvmAttachment::new(self.jvm).
Enter(t, op, name) ==
    /\ th[t].pc \in {"idle", "done"}
    /\ liveHandles > 0
    /\ LET att == JvmAttachmentNew(t) IN
       th' = [th EXCEPT ![t] =
                [Idle EXCEPT !.pc = "attached", !.op = op, !.name = name,
                             !.att = att, !.pending = th[t].pending,
                             !.events = << <<"attach", att.env>> >>]]
    /\ UNCHANGED <<newVars, marshalVars>>

\* jvm.rs 193-198.
call_constructor(t) == Enter(t, "call_constructor", <<>>)
\* jvm.rs 259-264.
call_static_boolean_method(t) == Enter(t, "call_static_boolean_method", <<>>)
\* jvm.rs 288-293.
call_static_int_method(t) == Enter(t, "call_static_int_method", <<>>)
\* jvm.rs 310-315.
call_static_object_method(t) == Enter(t, "call_static_object_method", <<>>)
\* jvm.rs 331-336.
call_static_void_method(t) == Enter(t, "call_static_void_method", <<>>)
\* jvm.rs 350-353.
get_class(t, jvm_class_name) == Enter(t, "get_class", jvm_class_name)

\* jvm.rs 355-361: the class name to a C string, then FindClass.
GetClassLookup(t) ==
    /\ th[t].pc = "attached"
    /\ th[t].op = "get_class"
    /\ LET r == th[t]
           cstring == CStringNew(r.name)
       IN
       IF ~cstring.ok
       THEN th' = [th EXCEPT ![t] = Leave([r EXCEPT !.panic = TRUE], "panic", "panic")]
       ELSE \E f \in FindClass(CStr(cstring.bytes)) :
                th' = [th EXCEPT ![t] =
                         [r EXCEPT !.pc = "called", !.ptr = f[1], !.thrown = f[2],
                                   !.pending = r.pending \/ f[2],
                                   !.pendingAfterCall = r.pending \/ f[2],
                                   !.events = Append(r.events, <<"FindClass", EnvForCall(r.att)>>)]]
    /\ UNCHANGED <<newVars, marshalVars>>

\* jvm.rs 200-205, 266-271, 295-300, 317-322, 338-343: the foreign call.
Invoke(t) ==
    /\ th[t].pc = "attached"
    /\ th[t].op \in InvocationOps
    /\ LET r == th[t] IN
       \E f \in ForeignInvoke(r.op) :
           th' = [th EXCEPT ![t] =
                    [r EXCEPT !.pc = "called", !.ptr = f[1], !.thrown = f[2],
                              !.pending = r.pending \/ f[2],
                              !.pendingAfterCall = r.pending \/ f[2],
                              !.events = Append(r.events,
                                                <<ForeignFunction(r.op), EnvForCall(r.att)>>)]]
    /\ UNCHANGED <<newVars, marshalVars>>

\* jvm.rs 207-209, 273-275, 302-304, 324-326, 345-347, 364-366: the exception
\* check with the environment pointer of the attachment, then the panic
\* unwinds or the result is returned; either way the function's locals are
\* dropped.
CheckAndLeave(t) ==
    /\ th[t].pc = "called"
    /\ LET r == th[t]
           b == ExceptionBridge(r.op, r.pending)
           env == EnvForCall(r.att)
           checked == [r EXCEPT !.pending = b.pending, !.panic = b.panic,
                                !.events = r.events \o
                                           [i \in 1 .. Len(b.calls) |-> <<b.calls[i], env>>]]
       IN
       th' = [th EXCEPT ![t] =
                IF checked.panic
                THEN Leave(checked, "panic", "panic")
                ELSE Leave(checked, "return", ReturnOutcome(checked.op, checked.ptr))]
    /\ UNCHANGED <<newVars, marshalVars>>

\* ------------------------------------------------------- value marshaling

\* The members of the jvalue union: size in bytes and signedness of each
\* (jni_sys: z jboolean u8, b jbyte i8, c jchar u16, s jshort i16, i jint
\* i32, j jlong i64, f jfloat f32, d jdouble f64, l jobject pointer).  A
\* float or double is carried by its bit pattern, read as a signed integer.
Members == {"z", "b", "c", "s", "i", "j", "f", "d", "l"}

Width(m) ==
    CASE m \in {"z", "b"} -> 1
      [] m \in {"c", "s"} -> 2
      [] m \in {"i", "f"} -> 4
      [] OTHER -> 8

Signed(m) == m \in {"b", "s", "i", "j", "f", "d"}

\* The n low bytes of v, least significant first, in two's complement.
RECURSIVE ToBytes(_, _)
ToBytes(v, n) == IF n = 0 THEN <<>> ELSE <<v % 256>> \o ToBytes(v \div 256, n - 1)

\* The integer a byte string holds, least significant byte first.
RECURSIVE FromBytes(_, _)
FromBytes(bytes, signed) ==
    IF Len(bytes) = 1
    THEN IF signed /\ bytes[1] >= 128 THEN bytes[1] - 256 ELSE bytes[1]
    ELSE bytes[1] + 256 * FromBytes(Tail(bytes), signed)

\* The host values of each kind that are marshaled.
HostValues(m) ==
    CASE m = "z" -> {0, 1, 255}
      [] m = "b" -> {-128, -1, 0, 1, 127}
      [] m = "c" -> {0, 65, 255, 256, 65535}
      [] m = "s" -> {-32768, -257, -1, 0, 255, 32767}
      [] m = "i" -> {-2147483647, -65536, -1, 0, 1, 65535, 2147483647}
      [] m = "j" -> {-2147483647, -65537, -1, 0, 1, 16777216, 2147483647}
      [] m = "f" -> {-1082130432, -1, 0, 1, 1065353216, 2143289344}
      [] m = "d" -> {-1048576, -1, 0, 1, 2146959360}
      [] OTHER -> {0, 1, 4096, 2147483647}

\* jvm.rs 23-25.
jvalue_from_jboolean(arg) == [member |-> "z", bytes |-> ToBytes(arg, Width("z"))]
\* jvm.rs 28-30.
jvalue_from_jbyte(arg) == [member |-> "b", bytes |-> ToBytes(arg, Width("b"))]
\* jvm.rs 33-35.
jvalue_from_jchar(arg) == [member |-> "c", bytes |-> ToBytes(arg, Width("c"))]
\* jvm.rs 38-40.
jvalue_from_jdouble(arg) == [member |-> "d", bytes |-> ToBytes(arg, Width("d"))]
\* jvm.rs 43-45.
jvalue_from_jint(arg) == [member |-> "i", bytes |-> ToBytes(arg, Width("i"))]
\* jvm.rs 48-50.
jvalue_from_jfloat(arg) == [member |-> "f", bytes |-> ToBytes(arg, Width("f"))]
\* jvm.rs 53-55.
jvalue_from_jlong(arg) == [member |-> "j", bytes |-> ToBytes(arg, Width("j"))]
\* jvm.rs 58-60.
jvalue_from_jobject(arg) == [member |-> "l", bytes |-> ToBytes(arg, Width("l"))]
\* Mutant of jvalue_from_jshort: the value is stored through the byte member.
JvalueFromJshortAsByte(arg) == [member |-> "b", bytes |-> ToBytes(arg, Width("b"))]

\* jvm.rs 63-65.
jvalue_from_jshort(arg) == [member |-> "s", bytes |-> ToBytes(arg, Width("s"))]

\* Reading member m of a jvalue: the first Width(m) bytes of the union.  The
\* bytes past the member that was written hold nothing defined and read as 0.
ReadMember(jv, m) ==
    LET have == [i \in 1 .. Width(m) |-> IF i <= Len(jv.bytes) THEN jv.bytes[i] ELSE 0]
    IN FromBytes(have, Signed(m))

NoJvalue == [member |-> "none", bytes |-> <<>>]
NoInput == [kind |-> "none", v |-> 0]

\* One marshaling call of kind m on host value v producing jv.
Marshal(m, v, jv) ==
    /\ mCalls < MaxMarshalCalls
    /\ mCalls' = mCalls + 1
    /\ mPrev' = [in |-> mIn, out |-> mOut]
    /\ mIn' = [kind |-> m, v |-> v]
    /\ mOut' = jv
    /\ UNCHANGED <<newVars, th>>

MarshalBoolean == \E v \in HostValues("z") : Marshal("z", v, jvalue_from_jboolean(v))
MarshalByte == \E v \in HostValues("b") : Marshal("b", v, jvalue_from_jbyte(v))
MarshalChar == \E v \in HostValues("c") : Marshal("c", v, jvalue_from_jchar(v))
MarshalDouble == \E v \in HostValues("d") : Marshal("d", v, jvalue_from_jdouble(v))
MarshalInt == \E v \in HostValues("i") : Marshal("i", v, jvalue_from_jint(v))
MarshalFloat == \E v \in HostValues("f") : Marshal("f", v, jvalue_from_jfloat(v))
MarshalLong == \E v \in HostValues("j") : Marshal("j", v, jvalue_from_jlong(v))
MarshalObject == \E v \in HostValues("l") : Marshal("l", v, jvalue_from_jobject(v))
MarshalShort == \E v \in HostValues("s") : Marshal("s", v, jvalue_from_jshort(v))

\* ---------------------------------------------------------- specifications

NoNew ==
    [called |-> FALSE, foreignCalled |-> FALSE, args |-> NoArgs, status |-> JNI_OK,
     returned |-> FALSE, message |-> NoMessage, handlesBefore |-> 0, liveBefore |-> 0]

MarshalIdle ==
    /\ mIn = NoInput
    /\ mOut = NoJvalue
    /\ mPrev = [in |-> NoInput, out |-> NoJvalue]
    /\ mCalls = 0

\* The process before any Jvm::new.
InitNew ==
    /\ vm_created = FALSE
    /\ liveHandles = 0
    /\ handlesReturned = 0
    /\ newCalls = 0
    /\ lastNew = NoNew
    /\ panicLog = {}
    /\ th = [t \in Threads |-> Idle]
    /\ MarshalIdle

\* The process after Jvm::new(&[]) returned its handle.
Init ==
    /\ vm_created = TRUE
    /\ liveHandles = 1
    /\ handlesReturned = 1
    /\ newCalls = 1
    /\ lastNew = [called |-> TRUE, foreignCalled |-> TRUE, args |-> JavaVMInitArgs(<<>>),
                  status |-> JNI_OK, returned |-> TRUE, message |-> NoMessage,
                  handlesBefore |-> 0, liveBefore |-> 0]
    /\ panicLog = {}
    /\ th = [t \in Threads |-> Idle]
    /\ MarshalIdle

NextNew ==
    \/ \E jvm_option_strings \in OptionLists : New(jvm_option_strings)
    \/ DropJvm

Next ==
    \/ \E t \in Threads : call_constructor(t)
    \/ \E t \in Threads : call_static_boolean_method(t)
    \/ \E t \in Threads : call_static_int_method(t)
    \/ \E t \in Threads : call_static_object_method(t)
    \/ \E t \in Threads : call_static_void_method(t)
    \/ \E t \in Threads : \E jvm_class_name \in ClassNames : get_class(t, jvm_class_name)
    \/ \E t \in Threads : GetClassLookup(t)
    \/ \E t \in Threads : Invoke(t)
    \/ \E t \in Threads : CheckAndLeave(t)

NextMarshal ==
    \/ MarshalBoolean
    \/ MarshalByte
    \/ MarshalChar
    \/ MarshalDouble
    \/ MarshalInt
    \/ MarshalFloat
    \/ MarshalLong
    \/ MarshalObject
    \/ MarshalShort

\* Threads calling the operations of one live handle.
Spec == Init /\ [][Next]_vars

\* Creation and drop of handles in one process.
SpecNew == InitNew /\ [][NextNew]_vars

\* The marshaling functions on their inputs.
SpecMarshal == InitNew /\ [][NextMarshal]_vars

\* ------------------------------------------------------------------ claims

\* The events of a call record that name a foreign function.
ForeignFunctions ==
    {"FindClass", "NewObjectA", "CallStaticBooleanMethodA", "CallStaticIntMethodA",
     "CallStaticObjectMethodA", "CallStaticVoidMethodA", "ExceptionOccurred",
     "ExceptionDescribe", "ExceptionClear"}

EventsNamed(r, names) == { i \in DOMAIN r.events : r.events[i][1] \in names }

Finished(t) == th[t].pc = "done"

\* The case of the claim a creation status falls in.
CaseOf(status) ==
    CASE status = JNI_EDETACHED -> "thread-detached"
      [] status = JNI_EEXIST -> "instance-already-exists"
      [] status = JNI_EINVAL -> "invalid-arguments"
      [] status = JNI_ENOMEM -> "out-of-memory"
      [] status = JNI_ERR -> "unknown-error"
      [] status = JNI_EVERSION -> "version-unsupported"
      [] OTHER -> "unrecognized-code"

\* C1: over any sequence of Jvm::new calls and drops of handles, at most one
\* Jvm::new call returns a handle; a call made after a creation succeeded
\* returns none, also when the first handle was dropped before it.
C1_AtMostOneHandle ==
    /\ handlesReturned <= 1
    /\ liveHandles <= 1
    /\ lastNew.called /\ lastNew.handlesBefore >= 1 => ~lastNew.returned

\* C1 witness: a Jvm::new that reached the foreign creation primitive after
\* the only handle had been dropped, and panicked.
C1_NewAfterDropPanics ==
    /\ lastNew.foreignCalled
    /\ lastNew.handlesBefore = 1
    /\ lastNew.liveBefore = 0
    /\ ~lastNew.returned
    /\ lastNew.message # NoMessage

\* C2: Jvm::new returns a handle iff the creation primitive returned JNI_OK;
\* on every other status it panics and returns none, and the panic messages
\* of two statuses of different cases differ.
C2_HandleIffOkDistinctMessages ==
    /\ lastNew.foreignCalled => (lastNew.returned <=> lastNew.status = JNI_OK)
    /\ lastNew.called /\ ~lastNew.foreignCalled => ~lastNew.returned
    /\ lastNew.foreignCalled /\ lastNew.status # JNI_OK =>
           /\ lastNew.message # NoMessage
           /\ <<lastNew.status, lastNew.message>> \in panicLog
    /\ \A p, q \in panicLog : CaseOf(p[1]) # CaseOf(q[1]) => p[2] # q[2]
    /\ \A p, q \in panicLog : CaseOf(p[1]) = CaseOf(q[1]) => p[2] = q[2]

\* C2 witness: a handle was returned on JNI_OK after panics of two different
\* cases, one of them a status outside the named codes.
C2_HandleAfterTwoPanics ==
    /\ lastNew.returned
    /\ lastNew.status = JNI_OK
    /\ Cardinality({ CaseOf(p[1]) : p \in panicLog }) >= 2
    /\ \E p \in panicLog : CaseOf(p[1]) = "unrecognized-code"

\* C3 as claimed: get_class on a name that is no loadable class, malformed
\* names included, ends with an absent result and never with a panic.
C3_LookupAbsentNeverPanics ==
    \A t \in Threads :
        Finished(t) /\ th[t].op = "get_class" /\ th[t].name \notin KnownClasses
            => th[t].outcome = "absent"

\* C4: in the five invocation operations, an exception pending after the
\* foreign call ends the operation in a panic; no value is returned and no
\* JvmObject is built from the result pointer.
C4_PendingExceptionPanics ==
    \A t \in Threads :
        LET r == th[t] IN
        r.op \in InvocationOps /\ r.pendingAfterCall /\ r.pc = "done" =>
            /\ r.panic
            /\ r.outcome = "panic"
            /\ ~r.wrapped
            /\ EventsNamed(r, {"return"}) = {}

\* C4 witness: call_static_object_method whose foreign call threw and left a
\* non-null result pointer has panicked.
C4_ObjectCallThrewAndPanicked ==
    \E t \in Threads :
        /\ Finished(t)
        /\ th[t].op = "call_static_object_method"
        /\ th[t].pendingAfterCall
        /\ th[t].ptr = 1
        /\ th[t].outcome = "panic"

\* C5: every call attaches once and releases that attachment once, on every
\* way out; no finished call still holds an attachment, and a call in
\* progress holds its own.
C5_AttachmentReleasedOnce ==
    \A t \in Threads :
        LET r == th[t]
            attaches == EventsNamed(r, {"attach"})
            detaches == EventsNamed(r, {"detach"})
        IN
        /\ r.pc \in {"idle", "done"} => ~r.att.live
        /\ r.pc = "done" =>
               /\ Cardinality(attaches) = 1
               /\ Cardinality(detaches) = 1
               /\ r.events[Len(r.events)] = <<"detach", r.events[1][2]>>
        /\ r.pc \in {"attached", "called"} =>
               /\ r.att.live
               /\ Cardinality(attaches) = 1
               /\ detaches = {}

\* C5 witness: calls have ended on each way out: a panic on a foreign
\* exception, a panic before the lookup, an absent result and a value.
C5_EveryExitPathTaken ==
    /\ \E t \in Threads :
           /\ Finished(t)
           /\ th[t].outcome = "panic"
           /\ \/ th[t].pendingAfterCall
              \/ th[t].op = "get_class"
    /\ \E t \in Threads :
           /\ Finished(t)
           /\ th[t].outcome \in {"absent", "value"}

\* C6: each marshaling function yields a jvalue whose written member is the
\* one of its kind and reads back as the host value; equal inputs give equal
\* jvalues; nothing else of the state is touched.
C6_MarshalRoundTrip ==
    /\ mIn.kind # "none" =>
           /\ mOut.member = mIn.kind
           /\ Len(mOut.bytes) = Width(mIn.kind)
           /\ ReadMember(mOut, mIn.kind) = mIn.v
    /\ mPrev.in.kind # "none" /\ mPrev.in = mIn => mPrev.out = mOut
    /\ mCalls > 0 =>
           /\ th = [t \in Threads |-> Idle]
           /\ lastNew = NoNew
           /\ ~vm_created
           /\ liveHandles = 0

\* C6 witness: the same negative jlong was marshaled twice.
C6_NegativeLongTwice ==
    /\ mCalls = 2
    /\ mIn.kind = "j"
    /\ mIn.v < 0
    /\ mPrev.in = mIn

\* C7 as claimed: the descriptor handed to the creation primitive has the
\* ignore-unrecognized flag set to the permissive setting.
C7_FlagPermissive ==
    lastNew.foreignCalled => lastNew.args.ignoreUnrecognized = JNI_TRUE

\* C7 amended: the descriptor handed to the creation primitive has
\* ignoreUnrecognized = JNI_FALSE, the strict setting, and a creation whose
\* options hold one the foreign runtime does not know returns no handle.
C7_FlagStrict ==
    lastNew.foreignCalled =>
        /\ lastNew.args.ignoreUnrecognized = JNI_FALSE
        /\ lastNew.args.version = JNI_VERSION_1_8
        /\ HasUnrecognizedOption(lastNew.args) => ~lastNew.returned

\* C7 witness: the first creation of the process, given an unknown option,
\* panicked.
C7_UnknownOptionRefused ==
    /\ lastNew.foreignCalled
    /\ HasUnrecognizedOption(lastNew.args)
    /\ lastNew.handlesBefore = 0
    /\ ~vm_created
    /\ ~lastNew.returned

C9_OwnLiveEnvironment ==
    \A t \in Threads :
        LET r == th[t]
            foreign == EventsNamed(r, ForeignFunctions)
            detaches == EventsNamed(r, {"detach"})
        IN
        /\ \A i \in foreign :
               /\ r.events[1] = <<"attach", t>>
               /\ r.events[i][2] = t
               /\ r.events[i][2] = r.att.env
               /\ \A d \in detaches : i < d
        /\ r.pc = "called" => r.att.live /\ r.att.env = t

\* C9 witness: two threads are between the foreign call and the exception
\* check of their operations at once, each attached, one of them after a
\* whole earlier call.
C9_TwoThreadsInCalls ==
    \E t, u \in Threads :
        /\ t # u
        /\ th[t].pc = "called"
        /\ th[t].op = "call_static_int_method"
        /\ th[t].att.live
        /\ th[u].pc = "called"
        /\ th[u].op = "get_class"
        /\ th[u].att.live

\* C10: when an exception is pending after the foreign call of an operation,
\* ExceptionDescribe is called before the operation returns or panics.
C10_DescribeBeforeLeaving ==
    \A t \in Threads :
        LET r == th[t]
            describes == EventsNamed(r, {"ExceptionDescribe"})
            exits == EventsNamed(r, {"return", "panic"})
        IN
        /\ r.pendingAfterCall /\ r.pc = "done" =>
               /\ describes # {}
               /\ \A d \in describes : \A e \in exits : d < e
        /\ r.op \in InvocationOps /\ r.panic => describes # {}

\* C10 witness: call_static_void_method panicked on an exception while a
\* get_class on another thread returned after one.
C10_PanicAndReturnAfterException ==
    \E t, u \in Threads :
        /\ Finished(t)
        /\ th[t].op = "call_static_void_method"
        /\ th[t].outcome = "panic"
        /\ Finished(u)
        /\ th[u].op = "get_class"
        /\ th[u].pendingAfterCall
        /\ th[u].outcome = "absent"

====
